---- MODULE Spec2Model ----
(***************************************************************************)
(* A model of assets/js/main.js: the accessible modal manager (initModals), *)
(* the project filter/sort engine (initProjectFilters), the theme and       *)
(* motion preference (initThemeAndMotion and the two toggles) and the       *)
(* count-up animation (initCountUp), the scroll-triggered reveal            *)
(* (initScrollAnimations) and the mobile navigation (initNav).              *)
(*                                                                         *)
(* Every event handler of the source runs to completion before the next    *)
(* event is processed, so each handler is one action.  DOM elements are    *)
(* named by strings; the document holds two trigger buttons on the page    *)
(* and two modals (image, project) that follow them in document order.     *)
(***************************************************************************)
EXTENDS Integers, Sequences, FiniteSets, TLC

VARIABLES
    isOpen,         \* modal -> the modal carries class "is_open"
    ariaHidden,     \* modal -> value of its aria-hidden attribute
    bodyOverflow,   \* document.body.style.overflow: "hidden" or ""
    lastFocus,      \* the closure variable lastFocus (NullEl is null)
    activeElement,  \* document.activeElement (Body when nothing is focused)
    event,          \* the event handled last and the one before it (a record of
                    \* the run, not read by the code)
    trapModal,      \* the modal opened last if only Tab keys were pressed since, else NullEl
    catalog,        \* card -> its attributes and text, as rendered
    searchValue,    \* searchInput.value
    categoryValue,  \* categorySelect.value
    yearValue,      \* yearSelect.value
    sortValue,      \* sortSelect.value
    selectedSkills, \* the Set selectedSkills
    grid,           \* the children of the grid, in DOM order
    display,        \* card -> card.style.display: "" or "none"
    emptyHidden,    \* emptyMsg.hidden
    localStorage,   \* key -> the stored string (Absent is getItem's null)
    prefersDark,    \* matches of the media query (prefers-color-scheme: dark)
    prefersReducedMotion, \* matches of (prefers-reduced-motion: reduce)
    data_theme,     \* the data_theme attribute of the document element
    data_motion,    \* the data_motion attribute of the document element
    themeBtnText,   \* textContent of the [data_theme_toggle] button
    motionBtnText,  \* textContent of the [data_motion_toggle] button
    in_view,        \* the [data_animate] elements that carry class "in_view"
    prefEvent,      \* the preference event handled last (a record of the run,
                    \* not read by the code)
    reduced,        \* the const reduced of initCountUp
    data_target,    \* count-up node -> its data_target attribute
    textContent,    \* count-up node -> its textContent
    observed,       \* count-up node -> the IntersectionObserver observes it
    pending,        \* count-up node -> a tick is requested as animation frame
    elapsed,        \* count-up node -> (now - start) of its last tick, in
                    \* units of duration / Steps, clamped to the duration
    started,        \* count-up node -> the number of runs of animateValue that
                    \* displayed or animated its target (a record of the run)
    revealObserved, \* the [data_animate] elements that the observer of
                    \* initScrollAnimations observes
    revealAdds,     \* [data_animate] element -> the number of times the observer
                    \* callback added "in_view" to it (a record of the run)
    navOpen,        \* #nav_links carries class "is_open"
    ariaExpanded,   \* the aria-expanded attribute of the [data_nav_toggle] button
    navEvent        \* the navigation event handled last and the one before it
                    \* (a record of the run, not read by the code)

modalVars == <<isOpen, ariaHidden, bodyOverflow, lastFocus, activeElement, event, trapModal>>
filterVars == <<catalog, searchValue, categoryValue, yearValue, sortValue,
                selectedSkills, grid, display, emptyHidden>>
prefVars == <<localStorage, prefersDark, prefersReducedMotion, data_theme,
              data_motion, themeBtnText, motionBtnText, in_view, prefEvent>>
countVars == <<reduced, data_target, textContent, observed, pending, elapsed, started>>
revealVars == <<revealObserved, revealAdds>>
navVars == <<navOpen, ariaExpanded, navEvent>>
vars == <<modalVars, filterVars, prefVars, countVars, revealVars, navVars>>

Range(s) == {s[i] : i \in DOMAIN s}

(***************************************************************************)
(* Theme and motion preference                                             *)
(***************************************************************************)

THEME_KEY == "site_theme"
MOTION_KEY == "site_motion"

\* localStorage.getItem of a key that holds nothing
Absent == "null"

\* the elements that carry [data_animate]
AnimateEls == {"hero", "about"}

\* localStorage.getItem(key) || "system"
saved(key) == IF localStorage[key] = Absent THEN "system" ELSE localStorage[key]

\* the data_theme attribute that applyTheme(theme) sets when the dark media
\* query matches as given
applyTheme(theme, dark) ==
    IF theme = "light" \/ theme = "dark" THEN theme
    ELSE IF dark THEN "dark" ELSE "light"

\* the data_motion attribute that applyMotion(motion) sets when the
\* reduced-motion media query matches as given
applyMotion(motion, reduce) ==
    IF motion = "reduced" THEN "reduced"
    ELSE IF motion = "full" THEN "full"
    ELSE IF reduce THEN "reduced" ELSE "full"

\* the button texts that updateToggleLabels sets
themeLabel(theme) ==
    IF theme = "system" THEN "Theme: System"
    ELSE IF theme = "dark" THEN "Theme: Dark" ELSE "Theme: Light"

motionLabel(motion) ==
    IF motion = "system" THEN "Motion: System"
    ELSE IF motion = "reduced" THEN "Motion: Reduced" ELSE "Motion: Full"

\* the state that init() leaves: initThemeAndMotion, updateToggleLabels and
\* the first lines of initScrollAnimations
InitPrefs ==
    /\ data_theme = applyTheme(saved(THEME_KEY), prefersDark)
    /\ data_motion = applyMotion(saved(MOTION_KEY), prefersReducedMotion)
    /\ themeBtnText = themeLabel(saved(THEME_KEY))
    /\ motionBtnText = motionLabel(saved(MOTION_KEY))
    /\ in_view = IF data_motion = "reduced" THEN AnimateEls ELSE {}
    /\ revealObserved = IF data_motion = "reduced" THEN {} ELSE AnimateEls
    /\ revealAdds = [el \in AnimateEls |-> 0]
    /\ prefEvent = "init"

\* a first visit: nothing stored, a system that asks for light and full motion
NoPrefs ==
    /\ localStorage = [k \in {THEME_KEY, MOTION_KEY} |-> Absent]
    /\ prefersDark = FALSE
    /\ prefersReducedMotion = FALSE
    /\ InitPrefs

\* a page without count-up nodes: initCountUp returns at once
NoCountUp ==
    /\ reduced = FALSE
    /\ data_target = << >>
    /\ textContent = << >>
    /\ observed = << >>
    /\ pending = << >>
    /\ elapsed = << >>
    /\ started = << >>

\* the record of a navigation event: its type, the element or key it came
\* from, whether the link list was open before, and the event before it
NavHandled(type, from, wasOpen) ==
    [type |-> type, from |-> from, wasOpen |-> wasOpen,
     prev |-> [type |-> navEvent.type, from |-> navEvent.from]]

NavLoaded ==
    [type |-> "init", from |-> "document", wasOpen |-> FALSE,
     prev |-> [type |-> "init", from |-> "document"]]

\* a page without [data_nav_toggle] or #nav_links: initNav returns at once
NoNav ==
    /\ navOpen = FALSE
    /\ ariaExpanded = Absent
    /\ navEvent = NavLoaded

(***************************************************************************)
(* The document of the modal manager                                       *)
(***************************************************************************)

NullEl == "null"
Body == "body"

\* qsa(".modal[data_modal]"), in document order
Modals == <<"image", "project">>

\* the focusable descendants of each modal, in document order; the first of
\* each is its [data_modal_close] button
ModalContent(m) ==
    IF m = "image" THEN <<"imageClose">>
    ELSE <<"projectClose", "projectLinkA", "projectLinkB">>

\* the [data_image_open] and [data_project_quickview] buttons of the page
Triggers == <<"imageOpenBtn", "quickviewBtn">>

\* every element that can take focus, in document (tab) order
TabOrder == Triggers \o ModalContent(Modals[1]) \o ModalContent(Modals[2])

\* an element is rendered (offsetParent !== null) when it is on the page or
\* inside a modal that carries is_open
Rendered(e, open) ==
    \/ e \in Range(Triggers)
    \/ \E i \in DOMAIN Modals : open[Modals[i]] /\ e \in Range(ModalContent(Modals[i]))

getFocusable(root, open) ==
    LET visible(e) == Rendered(e, open)
    IN SelectSeq(ModalContent(root), visible)

\* el.focus(): focus moves to el when el can take it, and stays otherwise
Focus(el, cur, open) ==
    IF el \in Range(TabOrder) /\ Rendered(el, open) THEN el ELSE cur

\* an element that stops being rendered loses focus to the body
FocusFixup(cur, open) ==
    IF cur \in Range(TabOrder) /\ ~Rendered(cur, open) THEN Body ELSE cur

\* qs(".modal.is_open"): the first open modal in document order, or null
qsOpenModal(open) ==
    IF \E i \in DOMAIN Modals : open[Modals[i]]
    THEN Modals[CHOOSE i \in DOMAIN Modals :
                    /\ open[Modals[i]]
                    /\ \A j \in DOMAIN Modals : open[Modals[j]] => i <= j]
    ELSE NullEl

IndexOf(s, e) == CHOOSE i \in DOMAIN s : s[i] = e

\* the browser's own Tab / Shift+Tab move when no handler prevents it: to the
\* next (previous) rendered element in tab order, wrapping around the document
BrowserTab(cur, shift, open) ==
    LET visible(e) == Rendered(e, open)
        order == SelectSeq(TabOrder, visible)
        n == Len(order)
    IN IF cur \notin Range(order)
       THEN (IF shift THEN order[n] ELSE order[1])
       ELSE LET i == IndexOf(order, cur)
            IN IF shift THEN order[IF i = 1 THEN n ELSE i - 1]
               ELSE order[IF i = n THEN 1 ELSE i + 1]

(***************************************************************************)
(* openModal and closeModal                                                *)
(***************************************************************************)

\* openModal(modal) called while `holder` is document.activeElement
openModal(modal, holder) ==
    /\ lastFocus' = holder
    /\ isOpen' = [isOpen EXCEPT ![modal] = TRUE]
    /\ ariaHidden' = [ariaHidden EXCEPT ![modal] = "false"]
    /\ bodyOverflow' = "hidden"
    /\ activeElement' =
         LET focusable == getFocusable(modal, isOpen')
         IN IF Len(focusable) > 0 THEN Focus(focusable[1], holder, isOpen') ELSE holder

\* closeModal without the lastFocus.focus() call
closeModalNoRestore(modal, holder) ==
    /\ isOpen' = [isOpen EXCEPT ![modal] = FALSE]
    /\ ariaHidden' = [ariaHidden EXCEPT ![modal] = "true"]
    /\ bodyOverflow' = ""
    /\ activeElement' = FocusFixup(holder, isOpen')
    /\ lastFocus' = NullEl

\* closeModal without the final lastFocus = null
closeModalKeepTrigger(modal, holder) ==
    /\ isOpen' = [isOpen EXCEPT ![modal] = FALSE]
    /\ ariaHidden' = [ariaHidden EXCEPT ![modal] = "true"]
    /\ bodyOverflow' = ""
    /\ activeElement' =
         FocusFixup(IF lastFocus # NullEl THEN Focus(lastFocus, holder, isOpen') ELSE holder,
                    isOpen')
    /\ lastFocus' = lastFocus

\* closeModal(modal) called while `holder` is document.activeElement
closeModal(modal, holder) ==
    /\ isOpen' = [isOpen EXCEPT ![modal] = FALSE]
    /\ ariaHidden' = [ariaHidden EXCEPT ![modal] = "true"]
    /\ bodyOverflow' = ""
    /\ activeElement' =
         FocusFixup(IF lastFocus # NullEl THEN Focus(lastFocus, holder, isOpen') ELSE holder,
                    isOpen')
    /\ lastFocus' = NullEl

\* the element that holds focus when a click handler runs: a click may or may
\* not move focus to the clicked button first (browsers differ)
ClickHolder(btn, focusMoves) ==
    IF focusMoves /\ Rendered(btn, isOpen) THEN btn ELSE activeElement

(***************************************************************************)
(* The handlers of the modal manager                                       *)
(***************************************************************************)

\* the record of an event: its type, the modal it acted on, the element that
\* held focus when its handler ran, the Shift modifier, whether the modal was
\* open before, and the event handled before it
Handled(type, modal, holder, shift, wasOpen) ==
    [type |-> type, modal |-> modal, holder |-> holder, shift |-> shift,
     wasOpen |-> wasOpen,
     prev |-> [type |-> event.type, modal |-> event.modal, holder |-> event.holder]]

ImageOpenClick ==
    \E focusMoves \in BOOLEAN :
        LET holder == ClickHolder("imageOpenBtn", focusMoves)
        IN /\ openModal("image", holder)
           /\ event' = Handled("open", "image", holder, FALSE, isOpen["image"])
           /\ trapModal' = "image"
           /\ UNCHANGED <<filterVars, prefVars, countVars, revealVars, navVars>>

ProjectQuickviewClick ==
    \E focusMoves \in BOOLEAN :
        LET holder == ClickHolder("quickviewBtn", focusMoves)
        IN /\ openModal("project", holder)
           /\ event' = Handled("open", "project", holder, FALSE, isOpen["project"])
           /\ trapModal' = "project"
           /\ UNCHANGED <<filterVars, prefVars, countVars, revealVars, navVars>>

\* a click on the [data_modal_close] control of modal m (el.closest(".modal") = m)
ModalCloseClick(m) ==
    \E focusMoves \in BOOLEAN :
        LET holder == ClickHolder(ModalContent(m)[1], focusMoves)
        IN /\ closeModal(m, holder)
           /\ event' = Handled("close", m, holder, FALSE, isOpen[m])
           /\ trapModal' = NullEl
           /\ UNCHANGED <<filterVars, prefVars, countVars, revealVars, navVars>>

EscapeKey ==
    LET open == qsOpenModal(isOpen)
    IN /\ IF open # NullEl
          THEN closeModal(open, activeElement)
          ELSE UNCHANGED <<isOpen, ariaHidden, bodyOverflow, lastFocus, activeElement>>
       /\ event' = Handled("escape", open, activeElement, FALSE, open # NullEl)
       /\ trapModal' = NullEl
       /\ UNCHANGED <<filterVars, prefVars, countVars, revealVars, navVars>>

\* the focus trap's result for a Tab (shift = FALSE) or Shift+Tab key press,
\* followed by the browser's own move when the handler does not prevent it
TabTarget(shift) ==
    LET modal == qsOpenModal(isOpen)
        default == BrowserTab(activeElement, shift, isOpen)
    IN IF modal = NullEl THEN default
       ELSE LET focusable == getFocusable(modal, isOpen)
            IN IF Len(focusable) = 0 THEN default
               ELSE LET first == focusable[1]
                        last == focusable[Len(focusable)]
                    IN IF shift /\ activeElement = first
                       THEN Focus(last, activeElement, isOpen)
                       ELSE IF ~shift /\ activeElement = last
                       THEN Focus(first, activeElement, isOpen)
                       ELSE default

TabKey ==
    \E shift \in BOOLEAN :
        /\ activeElement' = TabTarget(shift)
        /\ event' = Handled("tab", qsOpenModal(isOpen), activeElement, shift,
                            qsOpenModal(isOpen) # NullEl)
        /\ UNCHANGED <<isOpen, ariaHidden, bodyOverflow, lastFocus, trapModal>>
        /\ UNCHANGED <<filterVars, prefVars, countVars, revealVars, navVars>>

InitModals ==
    /\ isOpen = [m \in Range(Modals) |-> FALSE]
    /\ ariaHidden = [m \in Range(Modals) |-> "true"]
    /\ bodyOverflow = ""
    /\ lastFocus = NullEl
    /\ activeElement = Body
    /\ event = [type |-> "init", modal |-> NullEl, holder |-> Body, shift |-> FALSE,
                wasOpen |-> FALSE,
                prev |-> [type |-> "init", modal |-> NullEl, holder |-> Body]]
    /\ trapModal = NullEl

\* a page without a projects grid: initProjectFilters returns at once
NoGrid ==
    /\ catalog = << >>
    /\ searchValue = << >>
    /\ categoryValue = "all"
    /\ yearValue = "all"
    /\ sortValue = "recent"
    /\ selectedSkills = {}
    /\ grid = << >>
    /\ display = << >>
    /\ emptyHidden = TRUE

ModalInit == InitModals /\ NoGrid /\ NoPrefs /\ NoCountUp /\ NoNav

ModalNext ==
    \/ ImageOpenClick
    \/ ProjectQuickviewClick
    \/ \E m \in Range(Modals) : ModalCloseClick(m)
    \/ EscapeKey
    \/ TabKey

ModalSpec == ModalInit /\ [][ModalNext]_vars

(***************************************************************************)
(* Strings of the filter engine.  A string that the code folds, trims,     *)
(* splits or searches is a sequence of one-character strings.              *)
(***************************************************************************)

toLowerChar(c) ==
    CASE c = "A" -> "a"
      [] c = "B" -> "b"
      [] OTHER -> c

\* String.prototype.toLowerCase
toLowerCase(s) == [i \in DOMAIN s |-> toLowerChar(s[i])]

RECURSIVE trimStart(_)
trimStart(s) == IF s # << >> /\ Head(s) = " " THEN trimStart(Tail(s)) ELSE s

RECURSIVE trimEnd(_)
trimEnd(s) ==
    IF s # << >> /\ s[Len(s)] = " " THEN trimEnd(SubSeq(s, 1, Len(s) - 1)) ELSE s

\* String.prototype.trim
trim(s) == trimEnd(trimStart(s))

\* String.prototype.includes
includes(hay, q) ==
    \E i \in 0..(Len(hay) - Len(q)) : SubSeq(hay, i + 1, i + Len(q)) = q

\* String.prototype.split(","): the pieces between the commas
RECURSIVE split(_)
split(s) ==
    IF \E i \in DOMAIN s : s[i] = ","
    THEN LET i == CHOOSE k \in DOMAIN s :
                      s[k] = "," /\ \A j \in 1..(k - 1) : s[j] # ","
         IN <<SubSeq(s, 1, i - 1)>> \o split(SubSeq(s, i + 1, Len(s)))
    ELSE <<s>>

\* a JavaScript number: an integer, NaN or Infinity
Num(v) == [kind |-> "finite", val |-> v]
NaN == [kind |-> "NaN", val |-> 0]
Infinity == [kind |-> "Infinity", val |-> 0]

\* Number(raw) for the attribute values of the catalog: a numeral converts to
\* its value, the empty string and a string of white space to 0
Number(raw) ==
    CASE raw = "60" -> Num(60)
      [] raw = "80" -> Num(80)
      [] raw = "95" -> Num(95)
      [] raw = "2023" -> Num(2023)
      [] raw = "2024" -> Num(2024)
      [] raw = "Infinity" -> Infinity
      [] raw = "" -> Num(0)
      [] raw = " " -> Num(0)
      [] OTHER -> NaN

\* Number.isFinite
isFinite(n) == n.kind = "finite"

(***************************************************************************)
(* The catalog: the cards of the grid with their attributes as rendered.   *)
(* An absent attribute reads as "" (getAttribute's null and "" are both    *)
(* falsy in every getter of the code).                                     *)
(***************************************************************************)

NumCards == 3

CardKinds == {
    [data_category |-> "x", data_year |-> "2024", data_skills |-> <<"a", ",", " ", "B">>,
     data_impact |-> "80", data_technical |-> "60", textContent |-> <<"a", "b">>],
    [data_category |-> "y", data_year |-> "2023", data_skills |-> <<"A", ",", ",">>,
     data_impact |-> "80", data_technical |-> "Infinity", textContent |-> <<"B", "a">>],
    [data_category |-> "", data_year |-> "tbd", data_skills |-> << >>,
     data_impact |-> "", data_technical |-> "95", textContent |-> <<"B", " ", "b">>],
    [data_category |-> "x", data_year |-> " ", data_skills |-> <<"b">>,
     data_impact |-> "abc", data_technical |-> "60", textContent |-> <<"a">>] }

Catalogs == UNION {[1..n -> CardKinds] : n \in 0..NumCards}

\* the values a user can give the controls
Queries == {<< >>, <<" ", "A">>, <<"b", "b">>}
CategoryOptions == {"all", "x"}
YearOptions == {"all", "2024"}
SortOptions == {"recent", "impact", "technical"}
\* the data_skill attributes of the chips; the last chip carries none
Chips == {<<"a">>, <<"B", " ">>, << >>}

\* the cards of the grid in the order of the document as loaded; a card is
\* named by its place in it
documentOrder == [i \in 1..Len(catalog) |-> i]

\* cards queried again from the grid at every use
cardsFromGrid == grid

\* const cards = qsa("[data_project_card]", grid): taken once, at
\* initialisation
cards == documentOrder

\* the folded text of each kind of card, computed once
TextTable == [k \in CardKinds |-> toLowerCase(k.textContent)]
readCardText(card) == TextTable[catalog[card]]

getCardCategory(card) ==
    IF catalog[card].data_category # "" THEN catalog[card].data_category ELSE "all"

getCardYear(card) ==
    IF catalog[card].data_year # "" THEN catalog[card].data_year ELSE "all"

\* raw.split(",").map((s) => s.trim().toLowerCase()).filter(Boolean)
parseSkills(raw) ==
    LET parts == split(raw)
        folded == [i \in DOMAIN parts |-> toLowerCase(trim(parts[i]))]
        nonEmpty(x) == x # << >>
    IN SelectSeq(folded, nonEmpty)

\* the skills of each kind of card, computed once
SkillTable == [k \in CardKinds |-> parseSkills(k.data_skills)]
getCardSkills(card) == SkillTable[catalog[card]]

scoreImpact(card) ==
    LET raw == catalog[card].data_impact
        n == IF raw # "" THEN Number(raw) ELSE NaN
    IN IF isFinite(n) THEN n.val ELSE 0

scoreTechnical(card) ==
    LET raw == catalog[card].data_technical
        n == IF raw # "" THEN Number(raw) ELSE NaN
    IN IF isFinite(n) THEN n.val ELSE 0

\* (searchInput.value).trim().toLowerCase(), computed once for each value
QueryTable == [v \in Queries |-> toLowerCase(trim(v))]
searchQuery(v) == QueryTable[v]

\* matchesFilters with a skill test that accepts any selected skill
matchesAnySkill(card, search, category, year, skills) ==
    LET q == searchQuery(search)
    IN /\ (q # << >>) => includes(readCardText(card), q)
       /\ (category # "all") => getCardCategory(card) = category
       /\ (year # "all") => getCardYear(card) = year
       /\ (skills # {}) => \E sk \in skills : sk \in Range(getCardSkills(card))

\* matchesFilters(card) under the given values of the controls
matchesFilters(card, search, category, year, skills) ==
    LET q == searchQuery(search)
    IN IF q # << >> /\ ~includes(readCardText(card), q) THEN FALSE
       ELSE IF category # "all" /\ getCardCategory(card) # category THEN FALSE
       ELSE IF year # "all" /\ getCardYear(card) # year THEN FALSE
       ELSE IF skills # {} /\ \E sk \in skills : sk \notin Range(getCardSkills(card))
            THEN FALSE
       ELSE TRUE

\* the comparators of the three sort modes: negative when a goes before b
compareImpact(a, b) == scoreImpact(b) - scoreImpact(a)
compareTechnical(a, b) == scoreTechnical(b) - scoreTechnical(a)
compareRecent(a, b) ==
    LET ay == Number(getCardYear(a))
        by == Number(getCardYear(b))
        aOk == isFinite(ay)
        bOk == isFinite(by)
    IN IF aOk /\ bOk THEN by.val - ay.val
       ELSE IF aOk /\ ~bOk THEN -1
       ELSE IF ~aOk /\ bOk THEN 1
       ELSE 0

compare(sort, a, b) ==
    IF sort = "impact" THEN compareImpact(a, b)
    ELSE IF sort = "technical" THEN compareTechnical(a, b)
    ELSE compareRecent(a, b)

\* x put into the sorted sequence s behind every element that does not
\* compare greater than it
RECURSIVE insertSorted(_, _, _)
insertSorted(s, x, sort) ==
    IF s = << >> \/ compare(sort, s[Len(s)], x) <= 0
    THEN Append(s, x)
    ELSE Append(insertSorted(SubSeq(s, 1, Len(s) - 1), x, sort), s[Len(s)])

\* Array.prototype.sort with the comparator of the sort mode (a stable sort)
RECURSIVE sorted(_, _)
sorted(s, sort) ==
    IF s = << >> THEN << >>
    ELSE insertSorted(sorted(SubSeq(s, 1, Len(s) - 1), sort), s[Len(s)], sort)

\* const visible: the cards that pass matchesFilters, in the order of cards
visible(search, category, year, skills) ==
    LET ok(card) == matchesFilters(card, search, category, year, skills)
    IN SelectSeq(cards, ok)

\* card.style.display of every card after apply()
displayAfter(search, category, year, skills) ==
    [card \in DOMAIN catalog |->
        IF matchesFilters(card, search, category, year, skills) THEN "" ELSE "none"]

\* x put into the sorted sequence s in front of every element that does not
\* compare less than it
RECURSIVE insertBeforeTies(_, _, _)
insertBeforeTies(s, x, sort) ==
    IF s = << >> \/ compare(sort, s[Len(s)], x) < 0
    THEN Append(s, x)
    ELSE Append(insertBeforeTies(SubSeq(s, 1, Len(s) - 1), x, sort), s[Len(s)])

\* the grid after an apply() that takes the cards from the grid g and sorts
\* them with a sort that turns ties around
gridAfterUnstable(g, search, category, year, sort, skills) ==
    LET ok(card) == matchesFilters(card, search, category, year, skills)
        shown == SelectSeq(g, ok)
        hidden(card) == ~ok(card)
        RECURSIVE order(_)
        order(s) == IF s = << >> THEN << >>
                    ELSE insertBeforeTies(order(SubSeq(s, 1, Len(s) - 1)), s[Len(s)], sort)
    IN SelectSeq(g, hidden) \o order(shown)

\* the grid after an apply() that replaces the children of the grid by the
\* sorted cards
gridAfterReplace(g, search, category, year, sort, skills) ==
    sorted(visible(search, category, year, skills), sort)

\* the children of the grid g after apply(): every card of sorted is
\* appended in turn, which moves it behind the cards that are not appended
gridAfter(g, search, category, year, sort, skills) ==
    LET stays(card) == ~matchesFilters(card, search, category, year, skills)
    IN SelectSeq(g, stays) \o sorted(visible(search, category, year, skills), sort)

\* emptyMsg.hidden after an apply() that looks at the number of cards
emptyHiddenByCards(search, category, year, skills) == Len(cards) # 0

\* emptyMsg.hidden after apply()
emptyHiddenAfter(search, category, year, skills) ==
    Len(visible(search, category, year, skills)) # 0

\* apply(), run with the controls at the given values
apply(search, category, year, sort, skills) ==
    /\ display' = displayAfter(search, category, year, skills)
    /\ grid' = gridAfter(grid, search, category, year, sort, skills)
    /\ emptyHidden' = emptyHiddenAfter(search, category, year, skills)

(***************************************************************************)
(* The handlers of the filter engine                                       *)
(***************************************************************************)

SearchInput ==
    \E q \in Queries :
        /\ q # searchValue
        /\ searchValue' = q
        /\ apply(q, categoryValue, yearValue, sortValue, selectedSkills)
        /\ UNCHANGED <<catalog, categoryValue, yearValue, sortValue, selectedSkills>>
        /\ UNCHANGED <<modalVars, prefVars, countVars, revealVars, navVars>>

CategoryChange ==
    \E c \in CategoryOptions :
        /\ c # categoryValue
        /\ categoryValue' = c
        /\ apply(searchValue, c, yearValue, sortValue, selectedSkills)
        /\ UNCHANGED <<catalog, searchValue, yearValue, sortValue, selectedSkills>>
        /\ UNCHANGED <<modalVars, prefVars, countVars, revealVars, navVars>>

YearChange ==
    \E y \in YearOptions :
        /\ y # yearValue
        /\ yearValue' = y
        /\ apply(searchValue, categoryValue, y, sortValue, selectedSkills)
        /\ UNCHANGED <<catalog, searchValue, categoryValue, sortValue, selectedSkills>>
        /\ UNCHANGED <<modalVars, prefVars, countVars, revealVars, navVars>>

SortChange ==
    \E o \in SortOptions :
        /\ o # sortValue
        /\ sortValue' = o
        /\ apply(searchValue, categoryValue, yearValue, o, selectedSkills)
        /\ UNCHANGED <<catalog, searchValue, categoryValue, yearValue, selectedSkills>>
        /\ UNCHANGED <<modalVars, prefVars, countVars, revealVars, navVars>>

SkillChipClick ==
    \E chip \in Chips :
        LET skill == trim(toLowerCase(chip))
        IN IF skill = << >>
           THEN UNCHANGED vars
           ELSE LET next == IF skill \in selectedSkills
                            THEN selectedSkills \ {skill}
                            ELSE selectedSkills \cup {skill}
                IN /\ selectedSkills' = next
                   /\ apply(searchValue, categoryValue, yearValue, sortValue, next)
                   /\ UNCHANGED <<catalog, searchValue, categoryValue, yearValue, sortValue>>
                   /\ UNCHANGED <<modalVars, prefVars, countVars, revealVars, navVars>>

\* initProjectFilters: the controls at their defaults and one apply()
FilterInit ==
    /\ InitModals
    /\ NoPrefs
    /\ NoCountUp
    /\ NoNav
    /\ catalog \in Catalogs
    /\ searchValue = << >>
    /\ categoryValue = "all"
    /\ yearValue = "all"
    /\ sortValue = "recent"
    /\ selectedSkills = {}
    /\ display = [card \in DOMAIN catalog |-> ""]
    /\ grid = sorted(documentOrder, "recent")
    /\ emptyHidden = (Len(catalog) # 0)

FilterNext ==
    \/ SearchInput
    \/ CategoryChange
    \/ YearChange
    \/ SortChange
    \/ SkillChipClick

FilterSpec == FilterInit /\ [][FilterNext]_vars

(***************************************************************************)
(* The handlers of the theme and motion preference                         *)
(***************************************************************************)

\* the values that the toggles store, and a key never written
ThemeValues == {Absent, "system", "dark", "light"}
MotionValues == {Absent, "system", "reduced", "full"}

\* click on [data_theme_toggle]: system -> dark -> light -> system
ThemeToggleClick ==
    LET current == saved(THEME_KEY)
        next == IF current = "system" THEN "dark"
                ELSE IF current = "dark" THEN "light" ELSE "system"
    IN /\ localStorage' = [localStorage EXCEPT ![THEME_KEY] = next]
       /\ data_theme' = applyTheme(next, prefersDark)
       /\ themeBtnText' = themeLabel(next)
       /\ motionBtnText' = motionLabel(saved(MOTION_KEY))
       /\ prefEvent' = "themeClick"
       /\ UNCHANGED <<prefersDark, prefersReducedMotion, data_motion, in_view>>
       /\ UNCHANGED <<modalVars, filterVars, countVars, revealVars, navVars>>

\* click on [data_motion_toggle]: system -> reduced -> full -> system; under
\* reduced motion every [data_animate] element is revealed at once
MotionToggleClick ==
    LET current == saved(MOTION_KEY)
        next == IF current = "system" THEN "reduced"
                ELSE IF current = "reduced" THEN "full" ELSE "system"
        motion == applyMotion(next, prefersReducedMotion)
    IN /\ localStorage' = [localStorage EXCEPT ![MOTION_KEY] = next]
       /\ data_motion' = motion
       /\ themeBtnText' = themeLabel(saved(THEME_KEY))
       /\ motionBtnText' = motionLabel(next)
       /\ in_view' = IF motion = "reduced" THEN AnimateEls ELSE in_view
       /\ prefEvent' = "motionClick"
       /\ UNCHANGED <<prefersDark, prefersReducedMotion, data_theme>>
       /\ UNCHANGED <<modalVars, filterVars, countVars, revealVars, navVars>>

\* a change listener of the dark media query that applies the system theme
\* whatever is stored
ThemeMediaChangeAlways ==
    /\ prefersDark' = ~prefersDark
    /\ data_theme' = applyTheme("system", ~prefersDark)
    /\ prefEvent' = "themeMedia"
    /\ UNCHANGED <<localStorage, prefersReducedMotion, data_motion, themeBtnText,
                   motionBtnText, in_view>>
    /\ UNCHANGED <<modalVars, filterVars, countVars, revealVars, navVars>>

\* the system switches between light and dark: the change listener of mqTheme
ThemeMediaChange ==
    /\ prefersDark' = ~prefersDark
    /\ data_theme' = IF saved(THEME_KEY) = "system"
                     THEN applyTheme("system", ~prefersDark)
                     ELSE data_theme
    /\ prefEvent' = "themeMedia"
    /\ UNCHANGED <<localStorage, prefersReducedMotion, data_motion, themeBtnText,
                   motionBtnText, in_view>>
    /\ UNCHANGED <<modalVars, filterVars, countVars, revealVars, navVars>>

\* the system switches reduced motion on or off: the change listener of
\* mqMotion
MotionMediaChange ==
    /\ prefersReducedMotion' = ~prefersReducedMotion
    /\ data_motion' = IF saved(MOTION_KEY) = "system"
                      THEN applyMotion("system", ~prefersReducedMotion)
                      ELSE data_motion
    /\ prefEvent' = "motionMedia"
    /\ UNCHANGED <<localStorage, prefersDark, data_theme, themeBtnText,
                   motionBtnText, in_view>>
    /\ UNCHANGED <<modalVars, filterVars, countVars, revealVars, navVars>>

\* init() on a page load that finds any of the values the toggles store
PrefInit ==
    /\ InitModals
    /\ NoGrid
    /\ NoCountUp
    /\ NoNav
    /\ localStorage \in {st \in [{THEME_KEY, MOTION_KEY} -> ThemeValues \cup MotionValues] :
                           st[THEME_KEY] \in ThemeValues /\ st[MOTION_KEY] \in MotionValues}
    /\ prefersDark \in BOOLEAN
    /\ prefersReducedMotion \in BOOLEAN
    /\ InitPrefs

PrefNext ==
    \/ ThemeToggleClick
    \/ MotionToggleClick
    \/ ThemeMediaChange
    \/ MotionMediaChange

PrefSpec == PrefInit /\ [][PrefNext]_vars

(***************************************************************************)
(* Count-up.  A number of the count-up is held in tenths, so that targets  *)
(* with one decimal are exact: val = 25 stands for 2.5.                    *)
(***************************************************************************)

NumNodes == 2
Nodes == 1..NumNodes

\* the time of a tick is one of 0, 1/Steps, ..., 1 of the duration
Steps == 3

Digits == <<"0", "1", "2", "3", "4", "5", "6", "7", "8", "9">>
isDigit(c) == c \in Range(Digits)
digitValue(c) == IndexOf(Digits, c) - 1

\* the value of a string of digits
RECURSIVE wholeValue(_)
wholeValue(s) ==
    IF s = << >> THEN 0
    ELSE 10 * wholeValue(SubSeq(s, 1, Len(s) - 1)) + digitValue(s[Len(s)])

\* the data_target attributes of the nodes: an integer, a decimal, a number
\* written with a comma, an empty attribute and a word
Targets == { <<"7">>, <<"2", ".", "5">>, <<"1", ",", "2", "0", "0">>, << >>, <<"x">> }

\* targetRaw.replace(/,/g, "")
removeCommas(s) ==
    LET kept(c) == c # ","
    IN SelectSeq(s, kept)

\* Number(s) in tenths, for a string of characters with at most one decimal:
\* digits, or digits, a point and a digit; the empty string converts to 0
\* and every other string of Targets to NaN
NumberOfChars(s) ==
    LET n == Len(s)
    IN IF \A i \in 1..n : isDigit(s[i]) THEN Num(10 * wholeValue(s))
       ELSE IF /\ n >= 2
               /\ s[n - 1] = "."
               /\ isDigit(s[n])
               /\ \A i \in 1..(n - 2) : isDigit(s[i])
            THEN Num(10 * wholeValue(SubSeq(s, 1, n - 2)) + digitValue(s[n]))
       ELSE NaN

\* const target of animateValue(node)
target(node) ==
    LET targetRaw == IF data_target[node] # << >> THEN data_target[node] ELSE <<"0">>
    IN NumberOfChars(removeCommas(targetRaw))

RECURSIVE digitsOf(_)
digitsOf(n) ==
    IF n < 10 THEN <<Digits[n + 1]>>
    ELSE Append(digitsOf(n \div 10), Digits[(n % 10) + 1])

\* the digits of a whole number in groups of three
RECURSIVE grouped(_)
grouped(n) ==
    IF n < 1000 THEN digitsOf(n)
    ELSE grouped(n \div 1000)
         \o <<",", Digits[((n \div 100) % 10) + 1], Digits[((n \div 10) % 10) + 1],
              Digits[(n % 10) + 1]>>

\* n.toLocaleString("en-US") of a number n >= 0 given in tenths
formatNumber(n) ==
    IF n % 10 = 0 THEN grouped(n \div 10)
    ELSE grouped(n \div 10) \o <<".", Digits[(n % 10) + 1]>>

\* Math.round(startVal + (target - startVal) * eased) in tenths, for a target
\* given in tenths and t = e / Steps: eased = 1 - (1 - t)^3
tickValue(tgt, e) ==
    LET cube == Steps * Steps * Steps
        eased == cube - (Steps - e) * (Steps - e) * (Steps - e)
    IN 10 * ((2 * tgt * eased + 10 * cube) \div (20 * cube))

\* a callback of an IntersectionObserver receives at most MaxEntries entries
MaxEntries == 3

\* in the entries of one callback the entries of a target alternate between
\* intersecting and not intersecting
alternates(entries) ==
    \A i, j \in DOMAIN entries :
        ( /\ i < j
          /\ entries[i].target = entries[j].target
          /\ \A k \in (i + 1)..(j - 1) : entries[k].target # entries[i].target )
        => entries[i].isIntersecting # entries[j].isIntersecting

\* the lists of entries that one callback can receive about the targets: the
\* changes that were queued since the last callback, oldest first
Batches(targets) ==
    {entries \in UNION {[1..n -> [target : targets, isIntersecting : BOOLEAN]] :
                           n \in 1..MaxEntries} : alternates(entries)}

\* animateValue(el) on the count-up state c
animateValue(c, el) ==
    IF ~isFinite(target(el)) THEN c
    ELSE IF reduced
    THEN [c EXCEPT !.textContent[el] = formatNumber(target(el).val),
                   !.started[el] = @ + 1]
    ELSE [c EXCEPT !.pending[el] = TRUE,
                   !.elapsed[el] = 0,
                   !.started[el] = @ + 1]

\* entries.forEach of the count-up observer: animateValue and obs.unobserve
\* for every entry that is intersecting
RECURSIVE countUpEntries(_, _)
countUpEntries(c, entries) ==
    IF entries = << >> THEN c
    ELSE LET entry == Head(entries)
             after == IF entry.isIntersecting
                      THEN [animateValue(c, entry.target) EXCEPT
                               !.observed[entry.target] = FALSE]
                      ELSE c
         IN countUpEntries(after, Tail(entries))

\* the lists of entries about count-up nodes
CountUpBatches == Batches(Nodes)

\* the callback of the count-up observer, called with entries of nodes that
\* it observes
Intersect(entries) ==
    LET c == [textContent |-> textContent, pending |-> pending, elapsed |-> elapsed,
              observed |-> observed, started |-> started]
        after == countUpEntries(c, entries)
    IN /\ \A i \in DOMAIN entries : observed[entries[i].target]
       /\ textContent' = after.textContent
       /\ pending' = after.pending
       /\ elapsed' = after.elapsed
       /\ observed' = after.observed
       /\ started' = after.started
       /\ UNCHANGED <<reduced, data_target>>
       /\ UNCHANGED <<modalVars, filterVars, prefVars, revealVars, navVars>>

\* an animation frame runs tick for the node, at a time not before that of
\* its last tick; runs of animateValue started by one callback have the same
\* start at the resolution of Steps, so their ticks display the same value
Tick(node) ==
    /\ pending[node]
    /\ \E e \in elapsed[node]..Steps :
           /\ elapsed' = [elapsed EXCEPT ![node] = e]
           /\ textContent' = [textContent EXCEPT
                                 ![node] = formatNumber(tickValue(target(node).val, e))]
           /\ pending' = [pending EXCEPT ![node] = (e < Steps)]
    /\ UNCHANGED <<reduced, data_target, observed, started>>
    /\ UNCHANGED <<modalVars, filterVars, prefVars, revealVars, navVars>>

\* init() on a first visit to a page with count-up nodes that show 0
CountUpInit ==
    /\ InitModals
    /\ NoGrid
    /\ localStorage = [k \in {THEME_KEY, MOTION_KEY} |-> Absent]
    /\ prefersDark = FALSE
    /\ prefersReducedMotion \in BOOLEAN
    /\ InitPrefs
    /\ reduced = (data_motion = "reduced")
    /\ data_target \in [Nodes -> Targets]
    /\ textContent = [node \in Nodes |-> <<"0">>]
    /\ observed = [node \in Nodes |-> TRUE]
    /\ pending = [node \in Nodes |-> FALSE]
    /\ elapsed = [node \in Nodes |-> 0]
    /\ started = [node \in Nodes |-> 0]
    /\ NoNav

CountUpNext ==
    \/ \E entries \in CountUpBatches : Intersect(entries)
    \/ \E node \in Nodes : Tick(node)

CountUpSpec == CountUpInit /\ [][CountUpNext]_vars

(***************************************************************************)
(* Scroll-triggered reveal                                                 *)
(***************************************************************************)

\* the lists of entries about [data_animate] elements
RevealBatches == Batches(AnimateEls)

\* the callback of the observer of initScrollAnimations, called with entries
\* of elements that it observes: every intersecting entry adds "in_view" to
\* its target and unobserves it
RevealIntersect(entries) ==
    LET hits(el) == {i \in DOMAIN entries :
                        entries[i].target = el /\ entries[i].isIntersecting}
        hit == {el \in AnimateEls : hits(el) # {}}
    IN /\ \A i \in DOMAIN entries : entries[i].target \in revealObserved
       /\ in_view' = in_view \cup hit
       /\ revealObserved' = revealObserved \ hit
       /\ revealAdds' = [el \in AnimateEls |-> revealAdds[el] + Cardinality(hits(el))]
       /\ UNCHANGED <<localStorage, prefersDark, prefersReducedMotion, data_theme,
                      data_motion, themeBtnText, motionBtnText, prefEvent>>
       /\ UNCHANGED <<modalVars, filterVars, countVars, navVars>>

\* the two observers of a page with [data_animate] elements and count-up
\* nodes
ScrollNext ==
    \/ \E entries \in CountUpBatches : Intersect(entries)
    \/ \E node \in Nodes : Tick(node)
    \/ \E entries \in RevealBatches : RevealIntersect(entries)

ScrollSpec == CountUpInit /\ [][ScrollNext]_vars

(***************************************************************************)
(* Mobile navigation                                                       *)
(***************************************************************************)

\* the a.nav_link elements of #nav_links, the toggle button with the icon
\* inside it, and elements of the page outside both; a click can also land
\* on #nav_links itself
NavLinks == {"linkHome", "linkProjects"}
ToggleParts == {"navToggle", "navToggleIcon"}
Outside == {"main", "footer"}
Keys == {"Escape", "Tab"}

\* the attribute value that setAriaExpanded(btn, val) sets
setAriaExpanded(val) == IF val THEN "true" ELSE "false"

\* closeNav without the update of aria-expanded
closeNavKeepAria ==
    /\ navOpen' = FALSE
    /\ UNCHANGED ariaExpanded

closeNav ==
    /\ navOpen' = FALSE
    /\ ariaExpanded' = setAriaExpanded(FALSE)

\* links.contains(e.target) || toggle.contains(e.target)
clickedInside(el) == el \in NavLinks \cup {"nav_links"} \cup ToggleParts

\* a click on the toggle or on the icon inside it: the listener of the toggle,
\* then the click listener of the document, which finds the click inside
NavToggleClick ==
    \E el \in ToggleParts :
        LET open == ~navOpen
        IN /\ navOpen' = open
           /\ ariaExpanded' = setAriaExpanded(open)
           /\ navEvent' = NavHandled("toggle", el, navOpen)
           /\ UNCHANGED <<modalVars, filterVars, prefVars, countVars, revealVars>>

\* a click on a link of the list: the listener of the link, then the click
\* listener of the document, which finds the click inside
NavLinkClick ==
    \E a \in NavLinks :
        /\ closeNav
        /\ navEvent' = NavHandled("link", a, navOpen)
        /\ UNCHANGED <<modalVars, filterVars, prefVars, countVars, revealVars>>

\* a click that only the click listener of the document handles
DocumentClick ==
    \E el \in Outside \cup {"nav_links"} :
        /\ IF ~clickedInside(el) THEN closeNav ELSE UNCHANGED <<navOpen, ariaExpanded>>
        /\ navEvent' = NavHandled("click", el, navOpen)
        /\ UNCHANGED <<modalVars, filterVars, prefVars, countVars, revealVars>>

\* the keydown listener of the document that initNav adds
NavKeydown ==
    \E key \in Keys :
        /\ IF key = "Escape" THEN closeNav ELSE UNCHANGED <<navOpen, ariaExpanded>>
        /\ navEvent' = NavHandled("keydown", key, navOpen)
        /\ UNCHANGED <<modalVars, filterVars, prefVars, countVars, revealVars>>

\* initNav on a page whose markup has the list closed and the toggle with
\* aria-expanded "false" or without the attribute
NavInit ==
    /\ InitModals
    /\ NoGrid
    /\ NoPrefs
    /\ NoCountUp
    /\ navOpen = FALSE
    /\ ariaExpanded \in {Absent, "false"}
    /\ navEvent = NavLoaded

NavNext ==
    \/ NavToggleClick
    \/ NavLinkClick
    \/ DocumentClick
    \/ NavKeydown

NavSpec == NavInit /\ [][NavNext]_vars

(***************************************************************************)
(* Properties of the filter engine                                         *)
(***************************************************************************)

\* the cards left visible, in the order of the grid
visibleItemsInOrder ==
    LET shown(card) == display[card] = ""
    IN SelectSeq(grid, shown)

\* the four predicates of the filter state, each on its own
TextPredicate(card, query) ==
    \/ query = << >>
    \/ includes(toLowerCase(catalog[card].textContent), toLowerCase(query))

CategoryPredicate(card) ==
    categoryValue = "all" \/ getCardCategory(card) = categoryValue

YearPredicate(card) ==
    yearValue = "all" \/ getCardYear(card) = yearValue

SkillPredicate(card) ==
    selectedSkills = {} \/ selectedSkills \subseteq Range(getCardSkills(card))

\* C1 (as stated): a card is visible exactly when it satisfies the text
\* predicate on the query as typed and the category, year and skill
\* predicates; every other card is hidden.
C1_VisibleSetAsStated ==
    \A card \in DOMAIN catalog :
        /\ display[card] \in {"", "none"}
        /\ display[card] = "" <=>
             /\ SkillPredicate(card)
             /\ YearPredicate(card)
             /\ CategoryPredicate(card)
             /\ TextPredicate(card, searchValue)

\* C1 (amended): a card is visible exactly when it satisfies the text
\* predicate on the query with its surrounding whitespace removed and the
\* category, year and skill predicates, in whatever order they are taken;
\* every other card is hidden.
C1_VisibleSetTrimmedQuery ==
    \A card \in DOMAIN catalog :
        /\ display[card] \in {"", "none"}
        /\ display[card] = "" <=>
             /\ SkillPredicate(card)
             /\ YearPredicate(card)
             /\ CategoryPredicate(card)
             /\ TextPredicate(card, trim(searchValue))

C1_Witness ==
    /\ searchValue = <<" ", "A">>
    /\ categoryValue = "x"
    /\ yearValue = "2024"
    /\ selectedSkills = {<<"a">>, <<"b">>}
    /\ \E card \in DOMAIN catalog : display[card] = ""
    /\ \E card \in DOMAIN catalog : display[card] = "none"

\* s holds its cards by descending score, and cards of equal score in the
\* order of the original catalog
DescendingStable(s, score(_)) ==
    \A i, j \in DOMAIN s :
        i < j => \/ score(s[i]) > score(s[j])
                 \/ score(s[i]) = score(s[j]) /\ s[i] < s[j]

\* C10: under sort mode impact (technical) the visible cards are in
\* descending order of impact (technical) score, and visible cards of equal
\* score are in the order of the original catalog.
C10_ScoreSortStable ==
    /\ sortValue = "impact" => DescendingStable(visibleItemsInOrder, scoreImpact)
    /\ sortValue = "technical" => DescendingStable(visibleItemsInOrder, scoreTechnical)

\* three visible cards: the first two tie, and the recent order of the initial
\* recompute had them the other way round; the third comes first in the
\* catalog and has the lowest score
C10_Witness ==
    LET v == visibleItemsInOrder
    IN /\ sortValue = "impact"
       /\ Len(v) = 3
       /\ scoreImpact(v[1]) = scoreImpact(v[2])
       /\ compareRecent(v[1], v[2]) > 0
       /\ scoreImpact(v[2]) > scoreImpact(v[3])
       /\ v[3] < v[2]

\* the year attributes that are numerals, and the score attributes that are
YearNumerals == {"2023", "2024"}
ScoreNumerals == {"60", "80", "95"}

hasNumericYear(card) == catalog[card].data_year \in YearNumerals

\* C11: under sort mode recent every visible card without a numeric year
\* comes after every visible card with one, the cards with a numeric year
\* are in descending order of year, and the cards without one keep the
\* order they have in the catalog.
C11_RecentOrder ==
    sortValue = "recent" =>
        LET v == visibleItemsInOrder
        IN \A i, j \in DOMAIN v :
               i < j =>
                   /\ hasNumericYear(v[j]) => hasNumericYear(v[i])
                   /\ (hasNumericYear(v[i]) /\ hasNumericYear(v[j])) =>
                          Number(getCardYear(v[i])).val >= Number(getCardYear(v[j])).val
                   /\ (~hasNumericYear(v[i]) /\ ~hasNumericYear(v[j])) => v[i] < v[j]

\* the cards of grid g that display d shows, in the order of g
shownIn(g, d) ==
    LET shown(card) == d[card] = ""
    IN SelectSeq(g, shown)

\* C12: a second recompute with the filter state and the sort mode as they
\* are leaves the visible set, the order of the visible cards in the grid
\* and the empty-state flag as the first recompute left them.
C12_RecomputeTwice ==
    LET d == displayAfter(searchValue, categoryValue, yearValue, selectedSkills)
        g == gridAfter(grid, searchValue, categoryValue, yearValue, sortValue,
                       selectedSkills)
        e == emptyHiddenAfter(searchValue, categoryValue, yearValue, selectedSkills)
    IN /\ d = display
       /\ shownIn(g, d) = visibleItemsInOrder
       /\ e = emptyHidden

\* a recompute has left two visible cards of equal score next to each other
\* and a hidden card
C12_Witness ==
    LET v == visibleItemsInOrder
    IN /\ sortValue = "impact"
       /\ selectedSkills # {}
       /\ Len(v) >= 2
       /\ scoreImpact(v[1]) = scoreImpact(v[2])
       /\ \E card \in DOMAIN catalog : display[card] = "none"

\* C13: a visible card carries every selected skill; with a and b selected
\* a card tagged with a alone is not visible.
C13_SkillsAllRequired ==
    \A card \in DOMAIN catalog :
        display[card] = "" => selectedSkills \subseteq Range(getCardSkills(card))

\* chip clicks have selected a and b, no other filter is set, a card tagged
\* with a alone is hidden and a card is visible
C13_Witness ==
    /\ selectedSkills = {<<"a">>, <<"b">>}
    /\ searchValue = << >>
    /\ categoryValue = "all"
    /\ yearValue = "all"
    /\ \E card \in DOMAIN catalog :
           Range(getCardSkills(card)) = {<<"a">>} /\ display[card] = "none"
    /\ \E card \in DOMAIN catalog : display[card] = ""

\* C14: every handler leaves the attributes of every card as they were, and
\* the grid holds every card of the catalog exactly once.
C14_CatalogUntouched ==
    [][ /\ catalog' = catalog
        /\ Len(grid') = Len(catalog)
        /\ Range(grid') = DOMAIN catalog ]_vars

\* recomputes have hidden a card and moved the cards out of document order
C14_Witness ==
    /\ grid # documentOrder
    /\ Len(grid) = NumCards
    /\ \E card \in DOMAIN catalog : display[card] = "none"
    /\ \E card \in DOMAIN catalog : display[card] = ""

\* C15: the empty-state message is shown exactly when no card is visible; a
\* query that no card of a catalog with cards matches leaves no card visible
\* and the message shown.
C15_EmptyStateIffNoneVisible ==
    /\ ~emptyHidden <=> visibleItemsInOrder = << >>
    /\ ( /\ Len(catalog) > 0
         /\ \A card \in DOMAIN catalog : ~TextPredicate(card, trim(searchValue)) )
       => (visibleItemsInOrder = << >> /\ ~emptyHidden)

\* a catalog with cards and the query bb, which no card matches
C15_Witness ==
    /\ Len(catalog) > 0
    /\ searchValue = <<"b", "b">>
    /\ categoryValue = "all"
    /\ selectedSkills = {}
    /\ visibleItemsInOrder = << >>
    /\ ~emptyHidden

\* C17: a card whose score attribute is absent or not a finite number has
\* score 0, and a card whose year attribute is absent or not numeric
\* compares in the recent sort as a card without a year: behind every card
\* with a numeric year, level with every other card without one.
C17_MalformedNumbers ==
    \A card \in DOMAIN catalog :
        /\ catalog[card].data_impact \notin ScoreNumerals => scoreImpact(card) = 0
        /\ catalog[card].data_technical \notin ScoreNumerals => scoreTechnical(card) = 0
        /\ ~hasNumericYear(card) =>
               \A other \in DOMAIN catalog :
                   IF hasNumericYear(other)
                   THEN compareRecent(card, other) > 0
                   ELSE compareRecent(card, other) = 0

\* C18: the visible cards and their order are those that the filter state,
\* the sort mode and the order of the catalog give, whatever the events that
\* led to them.
C18_HistoryIndependent ==
    LET ok(card) == matchesFilters(card, searchValue, categoryValue, yearValue,
                                   selectedSkills)
    IN visibleItemsInOrder = sorted(SelectSeq(documentOrder, ok), sortValue)

\* the events have left the grid in another order than a page just loaded
\* and brought to the same filter state and sort mode would have
C18_Witness ==
    /\ grid # gridAfter(sorted(documentOrder, "recent"), searchValue, categoryValue,
                        yearValue, sortValue, selectedSkills)
    /\ Len(visibleItemsInOrder) >= 1

(***************************************************************************)
(* Properties of the modal manager                                         *)
(***************************************************************************)

OpenModals == {m \in Range(Modals) : isOpen[m]}

\* the last event closed modal m: a close-control click, or an Escape press
\* that found m open
ClosedBy(m) ==
    /\ event.modal = m
    /\ \/ event.type = "close"
       \/ event.type = "escape"

\* C2: when a modal is opened while trigger element T holds focus and the
\* very next event closes that modal, focus is on T afterwards.
C2_FocusRestoration ==
    \A m \in Range(Modals) : \A T \in Range(Triggers) :
        ( /\ ClosedBy(m)
          /\ event.prev.type = "open"
          /\ event.prev.modal = m
          /\ event.prev.holder = T ) => activeElement = T

C2_Witness ==
    /\ event.type = "close"
    /\ event.modal = "project"
    /\ event.prev.type = "open"
    /\ event.prev.modal = "project"
    /\ event.prev.holder = "quickviewBtn"
    /\ activeElement = "quickviewBtn"

\* C3: after a Tab key press handled while modal m is open with a non-empty
\* focusable sequence and its last element holds focus, focus is on its first
\* element; after a Shift+Tab handled while its first element holds focus,
\* focus is on its last element.
C3_FocusCycle ==
    \A m \in OpenModals :
        LET focusable == getFocusable(m, isOpen)
        IN (event.type = "tab" /\ Len(focusable) > 0) =>
             /\ (~event.shift /\ event.holder = focusable[Len(focusable)])
                    => activeElement = focusable[1]
             /\ (event.shift /\ event.holder = focusable[1])
                    => activeElement = focusable[Len(focusable)]

\* C4: while only Tab and Shift+Tab key presses have followed the opening of
\* a modal, the element that holds focus is one of that modal's focusable
\* elements.
C4_FocusNeverEscapes ==
    trapModal # NullEl =>
        activeElement \in Range(getFocusable(trapModal, isOpen))

\* C5: background scroll is suspended exactly in the states where at least
\* one modal is open.
C5_ScrollSuspendedIffOpen ==
    (bodyOverflow = "hidden") <=> (OpenModals # {})

\* C6: at most one modal is open at a time.
C6_AtMostOneOpen ==
    Cardinality(OpenModals) <= 1

\* C7: a close of a modal that is already closed changes neither the open
\* state of any modal, nor the scroll flag, nor the recorded trigger, nor the
\* input focus.
C7_CloseWhenClosedIsNoOp ==
    [][ (event'.type = "close" /\ ~isOpen[event'.modal])
            => UNCHANGED <<isOpen, bodyOverflow, lastFocus, activeElement>> ]_vars

\* C8: after every close the recorded trigger reference is empty.
C8_TriggerDiscarded ==
    (event.type = "close" \/ (event.type = "escape" /\ event.modal # NullEl))
        => lastFocus = NullEl

C8_Witness ==
    /\ event.type = "close"
    /\ event.wasOpen
    /\ event.prev.type = "open"
    /\ event.prev.holder = "imageOpenBtn"
    /\ lastFocus = NullEl

\* C9: an Escape key press handled while a modal is open leaves that modal
\* closed; handled while no modal is open, it changes no modal state, scroll
\* flag or recorded trigger.
C9_EscapeCloses ==
    [][ event'.type = "escape" =>
          /\ \A m \in Range(Modals) : isOpen[m] => ~isOpen'[m]
          /\ OpenModals = {} => UNCHANGED <<isOpen, ariaHidden, bodyOverflow, lastFocus>>
      ]_vars

\* C19: the modal that the Escape handler and the Tab handler treat as the
\* active one is the modal opened last.
C19_ActiveIsLastOpened ==
    /\ (event.type \in {"escape", "tab"} /\ event.prev.type = "open") =>
           event.modal = event.prev.modal
    /\ (event.type = "tab" /\ trapModal # NullEl) => event.modal = trapModal

(***************************************************************************)
(* Properties of the theme and motion preference                           *)
(***************************************************************************)

\* the theme (motion) that the system asks for
systemTheme == IF prefersDark THEN "dark" ELSE "light"
systemMotion == IF prefersReducedMotion THEN "reduced" ELSE "full"

\* C20: the applied theme (motion) is the stored preference when that is
\* light or dark (reduced or full), and what the system asks for when the
\* stored preference is system or absent; a change of the system's
\* preference leaves the applied value as it was when the stored preference
\* is light or dark (reduced or full).
C20_AppliedTracksStored ==
    /\ [] /\ localStorage[THEME_KEY] \in {"light", "dark"} =>
                data_theme = localStorage[THEME_KEY]
          /\ localStorage[THEME_KEY] \in {"system", Absent} => data_theme = systemTheme
          /\ localStorage[MOTION_KEY] \in {"reduced", "full"} =>
                data_motion = localStorage[MOTION_KEY]
          /\ localStorage[MOTION_KEY] \in {"system", Absent} => data_motion = systemMotion
    /\ [][ /\ (prefEvent' = "themeMedia" /\ localStorage[THEME_KEY] \in {"light", "dark"})
               => data_theme' = data_theme
           /\ (prefEvent' = "motionMedia" /\ localStorage[MOTION_KEY] \in {"reduced", "full"})
               => data_motion' = data_motion ]_vars

\* the system has just switched to light while dark is stored and applied,
\* and full motion is stored and applied against the system's wish
C20_Witness ==
    /\ prefEvent = "themeMedia"
    /\ localStorage[THEME_KEY] = "dark"
    /\ ~prefersDark
    /\ data_theme = "dark"
    /\ localStorage[MOTION_KEY] = "full"
    /\ prefersReducedMotion
    /\ data_motion = "full"

(***************************************************************************)
(* Properties of the count-up                                              *)
(***************************************************************************)

\* C16: for every finite target, the text that a completed animation leaves
\* (the tick at t = 1) is the text that reduced motion shows without an
\* animation.
C16_ReducedEqualsCompleted ==
    \A node \in DOMAIN data_target :
        ( /\ isFinite(target(node))
          /\ ~reduced
          /\ ~observed[node]
          /\ ~pending[node] ) =>
            textContent[node] = formatNumber(target(node).val)

(***************************************************************************)
(* Properties of the scroll-triggered reveal and the count-up triggers     *)
(***************************************************************************)

\* C21: whatever the callbacks of the two observers, the count-up of a node
\* and the reveal of an element are started at most once, and a node or
\* element that is no longer observed is never observed again.
C21_TriggersOneShot ==
    /\ [] /\ \A node \in DOMAIN started : started[node] <= 1
          /\ \A el \in AnimateEls : revealAdds[el] <= 1
    /\ [][ /\ \A node \in DOMAIN observed : observed'[node] => observed[node]
           /\ revealObserved' \subseteq revealObserved ]_vars

(***************************************************************************)
(* Properties of the mobile navigation                                     *)
(***************************************************************************)

\* C22: aria-expanded of the toggle is "true" exactly when the link list is
\* open; a click on a link, a click outside the list and the toggle, and an
\* Escape key press leave the list closed; a click on the toggle leaves it
\* open when it was closed and closed when it was open.
C22_NavConsistent ==
    /\ ariaExpanded = "true" <=> navOpen
    /\ navEvent.type = "link" => ~navOpen
    /\ (navEvent.type = "click" /\ navEvent.from \in Outside) => ~navOpen
    /\ (navEvent.type = "keydown" /\ navEvent.from = "Escape") => ~navOpen
    /\ navEvent.type = "toggle" => navOpen = ~navEvent.wasOpen

\* an Escape key press has closed the list that a click on the toggle had
\* opened
C22_Witness ==
    /\ navEvent.type = "keydown"
    /\ navEvent.from = "Escape"
    /\ navEvent.wasOpen
    /\ navEvent.prev.type = "toggle"
    /\ ~navOpen
    /\ ariaExpanded = "false"

====
